---------------------------- MODULE Spec2Model ----------------------------
(***************************************************************************)
(* Model of the GoEmotions sentiment server (servidor_sentimentos.py) and  *)
(* of its demo client (cliente.py).                                        *)
(*                                                                         *)
(* Representation.                                                         *)
(*   - A probability is an integer number of 1e-5 units (100000 is 1.0),   *)
(*     so that round(score * 100, 2) really rounds.                        *)
(*   - The classifier's answer for one text is a record                    *)
(*     [ok, itens]: ok = FALSE when the call raises, otherwise itens is    *)
(*     the list of {'label', 'score'} dicts in the order the classifier    *)
(*     returned them.                                                      *)
(*   - A JSON document is represented by the value json.dumps serialises.  *)
(*   - The tool handlers are "async def" bodies without any await: the     *)
(*     event loop runs each of them from start to end before it runs       *)
(*     another, so one handler execution is one step.                      *)
(***************************************************************************)
EXTENDS Integers, Sequences, FiniteSets, TLC

VARIABLES
    fase,           \* where the server process is in its life
    origem,         \* how the server was started: "main" or "externo"
    classificador,  \* module global: None or the loaded pipeline
    traducao,       \* module global TRADUCAO_EMOCOES (a mutable dict)
    servidor_mcp,   \* module global: the tools registered on the FastMCP object
    construcoes,    \* how many pipelines were constructed and stored so far
    pendentes,      \* tool calls accepted by the transport and not yet run
    ultima,         \* the call the event loop ran last, with its outcome
    pc,             \* client: <<example, step>> main() is at
    ambiente,       \* client: CHAVE_API_OPENAI in os.environ
    dotenv,         \* client: CHAVE_API_OPENAI in the .env file
    api_key,        \* client: the local api_key of exemplo_com_openai
    efeitos         \* client: what the run did so far

vars == <<fase, origem, classificador, traducao, servidor_mcp, construcoes,
          pendentes, ultima, pc, ambiente, dotenv, api_key, efeitos>>

varsServidor == <<fase, origem, classificador, traducao, servidor_mcp,
                  construcoes, pendentes, ultima>>

varsCliente == <<pc, ambiente, dotenv, api_key, efeitos>>

(***************************************************************************)
(* Bounds of the model.                                                    *)
(***************************************************************************)
\* Number of labels the classifier scores (28 in GoEmotions).
NumLabels == 3
\* Longest list of texts handed to comparar_sentimentos.
MaxTextos == 2
\* Most tool calls in flight at once.
MaxPendentes == 2

(***************************************************************************)
(* Program constants.                                                      *)
(***************************************************************************)
LIMIAR_ALTA == 50000
LIMIAR_MEDIA == 10000
TOP_K_PADRAO == 5
TOP_3 == 3

None == <<>>

PARES_TRADUCAO ==
    << <<"admiration", "admiração">>, <<"amusement", "diversão">>,
       <<"anger", "raiva">>, <<"annoyance", "irritação">>,
       <<"approval", "aprovação">>, <<"caring", "cuidado">>,
       <<"confusion", "confusão">>, <<"curiosity", "curiosidade">>,
       <<"desire", "desejo">>, <<"disappointment", "decepção">>,
       <<"disapproval", "desaprovação">>, <<"disgust", "nojo">>,
       <<"embarrassment", "vergonha">>, <<"excitement", "empolgação">>,
       <<"fear", "medo">>, <<"gratitude", "gratidão">>,
       <<"grief", "tristeza profunda">>, <<"joy", "alegria">>,
       <<"love", "amor">>, <<"nervousness", "nervosismo">>,
       <<"optimism", "otimismo">>, <<"pride", "orgulho">>,
       <<"realization", "percepção">>, <<"relief", "alívio">>,
       <<"remorse", "remorso">>, <<"sadness", "tristeza">>,
       <<"surprise", "surpresa">>, <<"neutral", "neutro">> >>

TRADUCAO_EMOCOES ==
    [l \in {PARES_TRADUCAO[i][1] : i \in 1..Len(PARES_TRADUCAO)} |->
        PARES_TRADUCAO[CHOOSE i \in 1..Len(PARES_TRADUCAO) :
                           PARES_TRADUCAO[i][1] = l][2]]

\* TRADUCAO_EMOCOES.get(label, label)
Traduzir(trad, label) ==
    IF label \in DOMAIN trad THEN trad[label] ELSE label

(***************************************************************************)
(* The classifier: an opaque function from a text to scored labels.        *)
(***************************************************************************)
Min(a, b) == IF a < b THEN a ELSE b
Max(a, b) == IF a > b THEN a ELSE b

\* The labels the classifier scores, in the order of its label table.
Labels == [i \in 1..NumLabels |-> PARES_TRADUCAO[i][1]]

Inverter(s) == [i \in 1..Len(s) |-> s[Len(s) + 1 - i]]

\* Orders in which the classifier may list its labels.
Ordens == {Labels, Inverter(Labels)}

\* Probabilities the classifier's answers are drawn from: both tier
\* boundaries, their neighbours just below (which round up to the boundary),
\* a value that rounds down to 0.0, and 1.0.  None ends in the digit 5, so
\* the rounding never depends on how the float represents a tie.
ESCADA == <<4, 9999, 10000, 49999, 50000, 100000>>

Scores == {ESCADA[i] : i \in 1..Len(ESCADA)}

Falha == [ok |-> FALSE, itens |-> <<>>]

Saida(ord, sc) ==
    [ok |-> TRUE,
     itens |-> [i \in 1..NumLabels |-> [label |-> ord[i], score |-> sc[i]]]]

\* Every answer the classifier can give for one text.
Saidas == {Saida(ord, sc) : ord \in Ordens, sc \in [1..NumLabels -> Scores]}

(***************************************************************************)
(* Post-processing shared by the three tools.                              *)
(***************************************************************************)
\* round(score * 100, 2), in hundredths of a percent; ties go to even.
Arredondar(score) ==
    LET q == score \div 10
        r == score % 10
    IN  IF r > 5 \/ (r = 5 /\ q % 2 = 1) THEN q + 1 ELSE q

\* f"{round(score * 100, 2)}%"
Porcentagem(score) == <<Arredondar(score), "%">>

RECURSIVE InserirAntes(_, _)
\* Variant of Inserir: r goes before the elements that tie with it.
InserirAntes(s, r) ==
    IF s = <<>> THEN <<r>>
    ELSE IF Head(s).score > r.score
         THEN <<Head(s)>> \o InserirAntes(Tail(s), r)
         ELSE <<r>> \o s

RECURSIVE Inserir(_, _)
\* Place r after every element whose score is not smaller: the position a
\* stable descending sort gives an element that arrives last.
Inserir(s, r) ==
    IF s = <<>> THEN <<r>>
    ELSE IF Head(s).score >= r.score
         THEN <<Head(s)>> \o Inserir(Tail(s), r)
         ELSE <<r>> \o s

RECURSIVE OrdenarAte(_, _)
OrdenarAte(s, n) ==
    IF n = 0 THEN <<>> ELSE Inserir(OrdenarAte(s, n - 1), s[n])

\* Variant of Ordenar: sorted(...) without reverse=True.
OrdenarCrescente(s) ==
    LET d == OrdenarAte(s, Len(s))
    IN  [i \in 1..Len(d) |-> d[Len(d) + 1 - i]]

\* sorted(resultados, key=lambda x: x['score'], reverse=True)
Ordenar(s) == OrdenarAte(s, Len(s))

\* Variant of Fatiar: the slice keeps one element too many.
FatiarUmAMais(s, k) ==
    LET fim == IF k >= 0 THEN Min(k + 1, Len(s)) ELSE Max(Len(s) + k, 0)
    IN  SubSeq(s, 1, fim)

\* s[:k] with Python's meaning of a negative stop.
Fatiar(s, k) ==
    LET fim == IF k >= 0 THEN Min(k, Len(s)) ELSE Max(Len(s) + k, 0)
    IN  SubSeq(s, 1, fim)

(***************************************************************************)
(* Outcome of one handler execution: the JSON document it returned, or the *)
(* exception that left it.  parciais and inferencias record the handler's  *)
(* locals at the moment it ended: how many analyses the list analises      *)
(* held and how many times the model had been called.                      *)
(***************************************************************************)
Retorno(valor, inferencias) ==
    [tipo |-> "json", valor |-> valor, erro |-> "",
     parciais |-> 0, inferencias |-> inferencias]

Excecao(erro, parciais, inferencias) ==
    [tipo |-> "excecao", valor |-> <<>>, erro |-> erro,
     parciais |-> parciais, inferencias |-> inferencias]

\* One element of "top_emocoes".
ItemTop(r, trad) ==
    [emocao |-> Traduzir(trad, r.label),
     emocao_original |-> r.label,
     probabilidade |-> Arredondar(r.score),
     porcentagem |-> Porcentagem(r.score)]

\* Tool 1.  modelo is the loaded pipeline, a function from texts to answers.
analisar_sentimento(texto, top_k, modelo, trad) ==
    LET bruto == modelo[texto]
        resultados == bruto.itens
        resultados_ordenados == Ordenar(resultados)
        top_resultados == Fatiar(resultados_ordenados, top_k)
    IN  IF ~bruto.ok THEN Excecao("inferencia", 0, 1)
        ELSE IF top_resultados = <<>> THEN Excecao("IndexError", 0, 1)
        ELSE Retorno(
            [texto_analisado |-> texto,
             total_emocoes |-> Len(resultados),
             top_emocoes |->
                 [i \in 1..Len(top_resultados) |-> ItemTop(top_resultados[i], trad)],
             emocao_dominante |-> Traduzir(trad, top_resultados[1].label),
             emocao_dominante_original |-> top_resultados[1].label,
             confianca_dominante |-> Porcentagem(top_resultados[1].score)], 1)

\* "alta" if score >= 0.5 else "média" if score >= 0.1 else "baixa"
Nivel(score) ==
    IF score >= LIMIAR_ALTA THEN "alta"
    ELSE IF score >= LIMIAR_MEDIA THEN "média" ELSE "baixa"

EhAlta(r) == r.score >= LIMIAR_ALTA
\* Variant of EhMedia: the lower boundary is excluded.
EhMediaEstrita(r) == LIMIAR_MEDIA < r.score /\ r.score < LIMIAR_ALTA

EhMedia(r) == LIMIAR_MEDIA <= r.score /\ r.score < LIMIAR_ALTA
EhBaixa(r) == r.score < LIMIAR_MEDIA

\* One element of "todas_emocoes".
ItemDetalhado(r, trad) ==
    [emocao |-> Traduzir(trad, r.label),
     emocao_original |-> r.label,
     probabilidade |-> Arredondar(r.score),
     porcentagem |-> Porcentagem(r.score),
     nivel |-> Nivel(r.score)]

\* Tool 2.  SelectSeq(s, T) is the comprehension [r for r in s if T(r)].
analisar_sentimento_detalhado(texto, modelo, trad) ==
    LET bruto == modelo[texto]
        resultados == bruto.itens
        resultados_ordenados == Ordenar(resultados)
        alta_probabilidade == SelectSeq(resultados_ordenados, EhAlta)
        media_probabilidade == SelectSeq(resultados_ordenados, EhMedia)
        baixa_probabilidade == SelectSeq(resultados_ordenados, EhBaixa)
    IN  IF ~bruto.ok THEN Excecao("inferencia", 0, 1)
        ELSE IF resultados_ordenados = <<>> THEN Excecao("IndexError", 0, 1)
        ELSE Retorno(
            [texto_analisado |-> texto,
             emocao_dominante |-> Traduzir(trad, resultados_ordenados[1].label),
             emocao_dominante_original |-> resultados_ordenados[1].label,
             confianca_dominante |-> Porcentagem(resultados_ordenados[1].score),
             resumo |->
                 [emocoes_alta_confianca |-> Len(alta_probabilidade),
                  emocoes_media_confianca |-> Len(media_probabilidade),
                  emocoes_baixa_confianca |-> Len(baixa_probabilidade)],
             todas_emocoes |->
                 [i \in 1..Len(resultados_ordenados) |->
                     ItemDetalhado(resultados_ordenados[i], trad)]], 1)

\* One element of "top_3_emocoes".
ItemTop3(r, trad) ==
    [emocao |-> Traduzir(trad, r.label),
     emocao_original |-> r.label,
     probabilidade |-> Porcentagem(r.score)]

\* The dict appended to analises for text number idx.
AnaliseDoTexto(idx, texto, resultados, trad) ==
    LET resultados_ordenados == Ordenar(resultados)
        tres == Fatiar(resultados_ordenados, TOP_3)
    IN  [texto_numero |-> idx,
         texto |-> texto,
         emocao_dominante |-> Traduzir(trad, resultados_ordenados[1].label),
         emocao_dominante_original |-> resultados_ordenados[1].label,
         confianca |-> Porcentagem(resultados_ordenados[1].score),
         top_3_emocoes |-> [i \in 1..Len(tres) |-> ItemTop3(tres[i], trad)]]

\* Variant of Acrescentar: analises.insert(0, a).
AcrescentarNaFrente(analises, a) == <<a>> \o analises

\* analises.append(a)
Acrescentar(analises, a) == Append(analises, a)

\* Variant of analises_inicial: the list is shared by all the calls (a
\* module-level list, or a mutable default argument) and never emptied.
analises_compartilhada(anteriores) == anteriores

\* analises = []: the accumulator is a new local list in every call,
\* whatever list an earlier call built.
analises_inicial(anteriores) == <<>>

\* Variant of AoFalhar: the loop is left and what was analysed is returned.
AoFalharParcial(textos, idx, analises) ==
    Retorno([total_textos_analisados |-> Len(textos), analises |-> analises], idx)

\* modelo(texto) raising inside the loop: nothing catches the exception, so
\* it leaves the handler and the list analises is dropped.
AoFalhar(textos, idx, analises) ==
    Excecao("inferencia", Len(analises), idx)

RECURSIVE Laco(_, _, _, _, _)
\* for idx, texto in enumerate(textos, 1): ... analises.append({...})
Laco(textos, idx, analises, modelo, trad) ==
    IF idx > Len(textos)
    THEN Retorno([total_textos_analisados |-> Len(textos),
                  analises |-> analises], Len(textos))
    ELSE LET bruto == modelo[textos[idx]]
         IN  IF ~bruto.ok
             THEN AoFalhar(textos, idx, analises)
             ELSE IF bruto.itens = <<>>
             THEN Excecao("IndexError", Len(analises), idx)
             ELSE Laco(textos, idx + 1,
                       Acrescentar(analises,
                              AnaliseDoTexto(idx, textos[idx], bruto.itens, trad)),
                       modelo, trad)

\* Tool 3.
comparar_sentimentos(textos, modelo, trad, anteriores) ==
    Laco(textos, 1, analises_inicial(anteriores), modelo, trad)

(***************************************************************************)
(* The loaded pipeline.  Its weights fix the answer to every text; the     *)
(* server process draws them from a small family of answers per text: all  *)
(* labels tied, scores rising along the list (so that sorting reverses     *)
(* it), and a text the model rejects.                                      *)
(***************************************************************************)
Textos == {"a", "b"}

PerfilEmpate == Saida(Labels, [i \in 1..NumLabels |-> LIMIAR_ALTA])

PerfilCrescente == Saida(Labels, [i \in 1..NumLabels |-> ESCADA[i]])

Perfis == {PerfilEmpate, PerfilCrescente, Falha}

Modelos == [Textos -> Perfis]

\* Variant of PrecisaCarregar: the cache is not consulted.
SempreCarrega(cl) == TRUE

\* if classificador is None
PrecisaCarregar(cl) == cl = None

\* Variant of Pipeline: a failed load is remembered in the global (an
\* except branch that stores a placeholder), so it is not tried again.
PipelineMarcaFalha(cl, n) ==
    {[ok |-> TRUE, cl |-> <<[id |-> n + 1, pesos |-> m]>>, cargas |-> 1] :
        m \in Modelos}
    \cup {[ok |-> FALSE,
           cl |-> <<[id |-> 0, pesos |-> [t \in Textos |-> Falha]]>>,
           cargas |-> 1]}

\* pipeline(task=..., model=..., top_k=None): a new pipeline object, or an
\* exception (ok = FALSE) that leaves the global as it was.
Pipeline(cl, n) ==
    {[ok |-> TRUE, cl |-> <<[id |-> n + 1, pesos |-> m]>>, cargas |-> 1] :
        m \in Modelos}
    \cup {[ok |-> FALSE, cl |-> cl, cargas |-> 1]}

\* inicializar_modelo(): the ways the call can end when the global holds cl
\* and n pipelines were built before.  cargas counts the calls of pipeline().
inicializar_modelo(cl, n) ==
    IF PrecisaCarregar(cl)
    THEN Pipeline(cl, n)
    ELSE {[ok |-> TRUE, cl |-> cl, cargas |-> 0]}

(***************************************************************************)
(* Tool calls.                                                             *)
(***************************************************************************)
Req(ferramenta, texto, top_k, textos) ==
    [ferramenta |-> ferramenta, texto |-> texto, top_k |-> top_k,
     textos |-> textos]

ListasAte(n) == UNION {[1..k -> Textos] : k \in 0..n}

ReqsAnalisar(ts, ks) ==
    {Req("analisar_sentimento", t, k, <<>>) : t \in ts, k \in ks}

ReqsDetalhado(ts) ==
    {Req("analisar_sentimento_detalhado", t, 0, <<>>) : t \in ts}

ReqsComparar(n) == {Req("comparar_sentimentos", "", 0, ts) : ts \in ListasAte(n)}

\* The calls the clients of the server send.
Requests ==
    ReqsAnalisar({"a"}, {TOP_K_PADRAO}) \cup ReqsDetalhado({"b"})
        \cup ReqsComparar(MaxTextos)

Nenhuma ==
    [req |-> Req("", "", 0, <<>>), res |-> Excecao("", 0, 0),
     instancia |-> 0, cargas |-> 0]

\* The analyses list the last comparison built, if it returned one.
Anteriores(ult) ==
    IF ult.req.ferramenta = "comparar_sentimentos" /\ ult.res.tipo = "json"
    THEN ult.res.valor.analises ELSE <<>>

\* The body of the handler of r after inicializar_modelo() returned modelo.
Ferramenta(r, modelo, trad, ult) ==
    CASE r.ferramenta = "analisar_sentimento" ->
            analisar_sentimento(r.texto, r.top_k, modelo, trad)
      [] r.ferramenta = "analisar_sentimento_detalhado" ->
            analisar_sentimento_detalhado(r.texto, modelo, trad)
      [] r.ferramenta = "comparar_sentimentos" ->
            comparar_sentimentos(r.textos, modelo, trad, Anteriores(ult))

(***************************************************************************)
(* The server process.                                                     *)
(***************************************************************************)
\* Nothing the client did yet.
SemEfeitos ==
    [conexoes |-> 0, chamadas |-> 0, sinteses |-> 0, avisos |-> 0,
     sucesso |-> FALSE]

\* The client is not run.
ClienteParado ==
    /\ pc = <<"main", "inicio">>
    /\ ambiente = None
    /\ dotenv = None
    /\ api_key = None
    /\ efeitos = SemEfeitos

\* The module was imported: globals set, the three tools registered.
Init ==
    /\ fase = "importado"
    /\ origem = "?"
    /\ classificador = None
    /\ traducao = TRADUCAO_EMOCOES
    /\ servidor_mcp = {"analisar_sentimento", "analisar_sentimento_detalhado",
                       "comparar_sentimentos"}
    /\ construcoes = 0
    /\ pendentes = {}
    /\ ultima = Nenhuma
    /\ ClienteParado

\* Variant of PreCarga: the server is started without the pre-load.
SemPreCarga(cl, n) == {[ok |-> TRUE, cl |-> cl, cargas |-> 0]}

\* The pre-load of the __main__ block: inicializar_modelo().
PreCarga(cl, n) == inicializar_modelo(cl, n)

\* __main__, line 328: an exception of the pre-load ends the process.
Main ==
    /\ fase = "importado"
    /\ \E c \in PreCarga(classificador, construcoes) :
          /\ classificador' = c.cl
          /\ construcoes' = IF c.ok /\ c.cargas > 0
                            THEN construcoes + 1 ELSE construcoes
          /\ fase' = IF c.ok THEN "precarregado" ELSE "abortado"
    /\ origem' = "main"
    /\ UNCHANGED <<traducao, servidor_mcp, pendentes, ultima>>
    /\ UNCHANGED varsCliente

\* __main__, line 334: servidor_mcp.run(transport='sse', port=8080).
Run ==
    /\ fase = "precarregado"
    /\ fase' = "servindo"
    /\ UNCHANGED <<origem, classificador, traducao, servidor_mcp, construcoes,
                   pendentes, ultima>>
    /\ UNCHANGED varsCliente

\* The module is imported and servidor_mcp is run by another program: the
\* __main__ block, and with it the pre-load, is skipped.
RunImportado ==
    /\ fase = "importado"
    /\ fase' = "servindo"
    /\ origem' = "externo"
    /\ UNCHANGED <<classificador, traducao, servidor_mcp, construcoes,
                   pendentes, ultima>>
    /\ UNCHANGED varsCliente

\* A client's tools/call reaches the serving process.
Chegar(r) ==
    /\ fase = "servindo"
    /\ r.ferramenta \in servidor_mcp
    /\ r \notin pendentes
    /\ Cardinality(pendentes) < MaxPendentes
    /\ pendentes' = pendentes \cup {r}
    /\ UNCHANGED <<fase, origem, classificador, traducao, servidor_mcp,
                   construcoes, ultima>>
    /\ UNCHANGED varsCliente

\* The event loop runs the handler of the pending call r, from its first
\* line to its return or to the exception that leaves it.
Executar(r) ==
    /\ fase = "servindo"
    /\ r \in pendentes
    /\ pendentes' = pendentes \ {r}
    /\ \E c \in inicializar_modelo(classificador, construcoes) :
          /\ classificador' = c.cl
          /\ construcoes' = IF c.ok /\ c.cargas > 0
                            THEN construcoes + 1 ELSE construcoes
          /\ ultima' =
                [req |-> r,
                 res |-> IF c.ok
                         THEN Ferramenta(r, c.cl[1].pesos, traducao, ultima)
                         ELSE Excecao("carga", 0, 0),
                 instancia |-> IF c.ok THEN c.cl[1].id ELSE 0,
                 cargas |-> c.cargas]
    /\ UNCHANGED <<fase, origem, traducao, servidor_mcp>>
    /\ UNCHANGED varsCliente

Next ==
    \/ Main
    \/ Run
    \/ RunImportado
    \/ \E r \in Requests : Chegar(r)
    \/ \E r \in pendentes : Executar(r)

Spec == Init /\ [][Next]_vars

(***************************************************************************)
(* The formatting of one answer, checked over every answer the classifier  *)
(* can give: a serving process whose model is loaded and that has one call *)
(* in flight.                                                              *)
(***************************************************************************)
\* Values of top_k around 0, the number of labels and the default.
TopKs == (0 - (NumLabels + 2))..(NumLabels + 2)

ModelosFormato ==
    {[t \in Textos |-> IF t = "a" THEN s ELSE PerfilCrescente] : s \in Saidas}

RequestsFormato ==
    ReqsAnalisar({"a"}, TopKs) \cup ReqsDetalhado({"a"})
        \cup {Req("comparar_sentimentos", "", 0, <<"a">>),
              Req("comparar_sentimentos", "", 0, <<"b", "a">>)}

InitFormato ==
    /\ fase = "servindo"
    /\ origem = "main"
    /\ \E m \in ModelosFormato : classificador = <<[id |-> 1, pesos |-> m]>>
    /\ traducao = TRADUCAO_EMOCOES
    /\ servidor_mcp = {"analisar_sentimento", "analisar_sentimento_detalhado",
                       "comparar_sentimentos"}
    /\ construcoes = 1
    /\ \E r \in RequestsFormato : pendentes = {r}
    /\ ultima = Nenhuma
    /\ ClienteParado

NextFormato == \E r \in pendentes : Executar(r)

SpecFormato == InitFormato /\ [][NextFormato]_vars

(***************************************************************************)
(* Vocabulary of the properties.                                           *)
(***************************************************************************)
\* The last call ran tool f and returned a JSON document.
Respondeu(f) ==
    /\ ultima.req.ferramenta = f
    /\ ultima.res.tipo = "json"
    /\ classificador # None

\* The classifier's unsorted answer for text t.
Bruto(t) == classificador[1].pesos[t].itens

Posicao(itens, label) ==
    CHOOSE i \in 1..Len(itens) : itens[i].label = label

ScoreDe(itens, label) == itens[Posicao(itens, label)].score

MaiorScore(itens) ==
    CHOOSE s \in {itens[i].score : i \in 1..Len(itens)} :
        \A j \in 1..Len(itens) : itens[j].score <= s

Rotulos(lista) == [i \in 1..Len(lista) |-> lista[i].emocao_original]

SemRepeticao(rot) ==
    \A i, j \in 1..Len(rot) : rot[i] = rot[j] => i = j

\* lista (elements with emocao_original and probabilidade) holds distinct
\* labels of itens, each with its rounded score, in non-increasing order,
\* and no label left out scores more than a listed one.
ListaDoTopo(lista, itens) ==
    /\ SemRepeticao(Rotulos(lista))
    /\ \A i \in 1..Len(lista) :
          /\ \E j \in 1..Len(itens) : itens[j].label = lista[i].emocao_original
          /\ lista[i].probabilidade = Arredondar(ScoreDe(itens, lista[i].emocao_original))
    /\ \A i \in 1..Len(lista) - 1 :
          /\ lista[i].probabilidade >= lista[i + 1].probabilidade
          /\ ScoreDe(itens, lista[i].emocao_original)
                >= ScoreDe(itens, lista[i + 1].emocao_original)
    /\ \A j \in 1..Len(itens) :
          (\A i \in 1..Len(lista) : lista[i].emocao_original # itens[j].label)
              => \A i \in 1..Len(lista) :
                    itens[j].score <= ScoreDe(itens, lista[i].emocao_original)

(***************************************************************************)
(* C1, as stated: whatever the integer top_k, a response of                *)
(* analisar_sentimento lists exactly min(top_k, number of labels)          *)
(* emotions, in non-increasing order of probability.                       *)
(***************************************************************************)
C1_Original ==
    Respondeu("analisar_sentimento") =>
        /\ Len(ultima.res.valor.top_emocoes) = Min(ultima.req.top_k, NumLabels)
        /\ ListaDoTopo(ultima.res.valor.top_emocoes, Bruto(ultima.req.texto))

(***************************************************************************)
(* C1, amended: for top_k >= 1 the response lists exactly min(top_k,       *)
(* number of labels) emotions in non-increasing order of probability; for  *)
(* a negative top_k above minus the number of labels it lists the number   *)
(* of labels plus top_k emotions, in the same order; for top_k = 0 and for *)
(* top_k at or below minus the number of labels the call raises IndexError *)
(* and returns nothing.                                                    *)
(***************************************************************************)
C1_TopK ==
    (/\ ultima.req.ferramenta = "analisar_sentimento"
     /\ classificador # None) =>
        LET k == ultima.req.top_k
            n == Len(Bruto(ultima.req.texto))
            esperado == IF k >= 1 THEN Min(k, n) ELSE IF k > 0 - n THEN n + k ELSE 0
        IN  /\ n = NumLabels
            /\ IF k = 0 \/ k <= 0 - n
               THEN /\ ultima.res.tipo = "excecao"
                    /\ ultima.res.erro = "IndexError"
               ELSE /\ ultima.res.tipo = "json"
                    /\ Len(ultima.res.valor.top_emocoes) = esperado
                    /\ ultima.res.valor.total_emocoes = n
                    /\ ListaDoTopo(ultima.res.valor.top_emocoes,
                                   Bruto(ultima.req.texto))

\* A response cut to two emotions of different probability, out of more.
C1_Witness ==
    /\ Respondeu("analisar_sentimento")
    /\ ultima.req.top_k = 2
    /\ Len(ultima.res.valor.top_emocoes) = 2
    /\ ultima.res.valor.top_emocoes[1].probabilidade
          > ultima.res.valor.top_emocoes[2].probabilidade
    /\ Bruto(ultima.req.texto)[1].score < MaiorScore(Bruto(ultima.req.texto))

(***************************************************************************)
(* C2: a response of analisar_sentimento_detalhado lists every label once, *)
(* in non-increasing order of probability; a label is tagged "alta"        *)
(* exactly when its probability is at least 0.5, "média" exactly when it   *)
(* is at least 0.1 and below 0.5, "baixa" exactly when it is below 0.1;    *)
(* the three counts of the summary add up to the number of labels and each *)
(* equals the number of listed labels that carry its tag.                  *)
(***************************************************************************)
ComNivel(lista, nivel) ==
    Cardinality({i \in 1..Len(lista) : lista[i].nivel = nivel})

C2_Niveis ==
    Respondeu("analisar_sentimento_detalhado") =>
        LET v == ultima.res.valor
            itens == Bruto(ultima.req.texto)
        IN  /\ Len(v.todas_emocoes) = NumLabels
            /\ Len(itens) = NumLabels
            /\ ListaDoTopo(v.todas_emocoes, itens)
            /\ \A i \in 1..Len(v.todas_emocoes) :
                  LET e == v.todas_emocoes[i]
                      p == ScoreDe(itens, e.emocao_original)
                  IN  /\ e.nivel \in {"alta", "média", "baixa"}
                      /\ e.nivel = "alta" <=> p >= LIMIAR_ALTA
                      /\ e.nivel = "média" <=> (LIMIAR_MEDIA <= p /\ p < LIMIAR_ALTA)
                      /\ e.nivel = "baixa" <=> p < LIMIAR_MEDIA
            /\ v.resumo.emocoes_alta_confianca + v.resumo.emocoes_media_confianca
                  + v.resumo.emocoes_baixa_confianca = NumLabels
            /\ v.resumo.emocoes_alta_confianca = ComNivel(v.todas_emocoes, "alta")
            /\ v.resumo.emocoes_media_confianca = ComNivel(v.todas_emocoes, "média")
            /\ v.resumo.emocoes_baixa_confianca = ComNivel(v.todas_emocoes, "baixa")

\* A response with all three tiers, one label exactly on each boundary and
\* one that is displayed as 50.0% although it is below 0.5.
C2_Witness ==
    /\ Respondeu("analisar_sentimento_detalhado")
    /\ ultima.res.valor.resumo.emocoes_baixa_confianca >= 1
    /\ \E i, j, k \in 1..NumLabels :
          LET itens == Bruto(ultima.req.texto)
          IN  /\ itens[i].score = LIMIAR_ALTA
              /\ itens[j].score = LIMIAR_MEDIA
              /\ itens[k].score < LIMIAR_MEDIA
    /\ ultima.res.valor.resumo.emocoes_alta_confianca = 1
    /\ ultima.res.valor.resumo.emocoes_media_confianca = 1

(***************************************************************************)
(* C4: in every response of each of the three tools the dominant label is  *)
(* a label whose probability is the greatest of all the labels the         *)
(* classifier scored for that text, whatever top_k is, and the reported    *)
(* confidence is that label's probability (as a rounded percentage).       *)
(***************************************************************************)
DominanteCerto(original, traduzido, confianca, itens) ==
    /\ \E i \in 1..Len(itens) : itens[i].label = original
    /\ ScoreDe(itens, original) = MaiorScore(itens)
    /\ confianca = <<Arredondar(MaiorScore(itens)), "%">>
    /\ traduzido = TRADUCAO_EMOCOES[original]

C4_Dominante ==
    /\ Respondeu("analisar_sentimento") =>
          DominanteCerto(ultima.res.valor.emocao_dominante_original,
                         ultima.res.valor.emocao_dominante,
                         ultima.res.valor.confianca_dominante,
                         Bruto(ultima.req.texto))
    /\ Respondeu("analisar_sentimento_detalhado") =>
          DominanteCerto(ultima.res.valor.emocao_dominante_original,
                         ultima.res.valor.emocao_dominante,
                         ultima.res.valor.confianca_dominante,
                         Bruto(ultima.req.texto))
    /\ Respondeu("comparar_sentimentos") =>
          \A i \in 1..Len(ultima.res.valor.analises) :
              DominanteCerto(ultima.res.valor.analises[i].emocao_dominante_original,
                             ultima.res.valor.analises[i].emocao_dominante,
                             ultima.res.valor.analises[i].confianca,
                             Bruto(ultima.req.textos[i]))

\* A response cut to one emotion by top_k = 1 or by top_k = -(labels - 1),
\* for an answer whose greatest score is not listed first.
C4_Witness ==
    /\ Respondeu("analisar_sentimento")
    /\ ultima.req.top_k = 1 - NumLabels
    /\ Len(ultima.res.valor.top_emocoes) = 1
    /\ Bruto(ultima.req.texto)[1].score < MaiorScore(Bruto(ultima.req.texto))
    /\ Bruto(ultima.req.texto)[NumLabels].score < MaiorScore(Bruto(ultima.req.texto))

(***************************************************************************)
(* C9: in the sorted list of every tool, labels of equal probability keep  *)
(* the relative order they had in the classifier's unsorted answer; so a   *)
(* tied label is listed only if the tied labels before it in that answer   *)
(* are listed, and the dominant label is the first label of the answer     *)
(* that has the greatest probability.                                      *)
(***************************************************************************)
Estavel(rot, itens) ==
    /\ \A i, j \in 1..Len(rot) :
          (i < j /\ ScoreDe(itens, rot[i]) = ScoreDe(itens, rot[j]))
              => Posicao(itens, rot[i]) < Posicao(itens, rot[j])
    /\ \A j \in 1..Len(rot) : \A x \in 1..Len(itens) :
          (x < Posicao(itens, rot[j]) /\ itens[x].score = ScoreDe(itens, rot[j]))
              => \E i \in 1..Len(rot) : rot[i] = itens[x].label

PrimeiroMaior(itens) ==
    itens[CHOOSE i \in 1..Len(itens) :
              /\ itens[i].score = MaiorScore(itens)
              /\ \A j \in 1..(i - 1) : itens[j].score < MaiorScore(itens)].label

C9_Estavel ==
    /\ Respondeu("analisar_sentimento") =>
          /\ Estavel(Rotulos(ultima.res.valor.top_emocoes), Bruto(ultima.req.texto))
          /\ ultima.res.valor.emocao_dominante_original
                = PrimeiroMaior(Bruto(ultima.req.texto))
    /\ Respondeu("analisar_sentimento_detalhado") =>
          /\ Estavel(Rotulos(ultima.res.valor.todas_emocoes), Bruto(ultima.req.texto))
          /\ ultima.res.valor.emocao_dominante_original
                = PrimeiroMaior(Bruto(ultima.req.texto))
    /\ Respondeu("comparar_sentimentos") =>
          \A i \in 1..Len(ultima.res.valor.analises) :
              /\ Estavel(Rotulos(ultima.res.valor.analises[i].top_3_emocoes),
                         Bruto(ultima.req.textos[i]))
              /\ ultima.res.valor.analises[i].emocao_dominante_original
                    = PrimeiroMaior(Bruto(ultima.req.textos[i]))

\* Every label tied, listed by the classifier in reverse table order, and
\* a response cut to two of them.
C9_Witness ==
    /\ Respondeu("analisar_sentimento")
    /\ ultima.req.top_k = 2
    /\ \A i \in 1..NumLabels :
          /\ Bruto(ultima.req.texto)[i].score = LIMIAR_ALTA
          /\ Bruto(ultima.req.texto)[i].label = Labels[NumLabels + 1 - i]
    /\ Rotulos(ultima.res.valor.top_emocoes)
          = <<Labels[NumLabels], Labels[NumLabels - 1]>>

(***************************************************************************)
(* C3: a response of comparar_sentimentos holds one analysis per input     *)
(* text and reports that number as the total; the i-th analysis is         *)
(* numbered i, carries the i-th text and is the analysis of that text; its *)
(* top-3 list has three entries in non-increasing order of probability.    *)
(* The empty list and lists with repeated texts are included.              *)
(***************************************************************************)
Top3ComoLista(l) ==
    [i \in 1..Len(l) |->
        [emocao_original |-> l[i].emocao_original,
         probabilidade |-> l[i].probabilidade[1]]]

C3_Comparacao ==
    Respondeu("comparar_sentimentos") =>
        LET v == ultima.res.valor
            textos == ultima.req.textos
        IN  /\ Len(v.analises) = Len(textos)
            /\ v.total_textos_analisados = Len(textos)
            /\ \A i \in 1..Len(v.analises) :
                  /\ v.analises[i].texto_numero = i
                  /\ v.analises[i].texto = textos[i]
                  /\ Len(v.analises[i].top_3_emocoes) = 3
                  /\ ListaDoTopo(Top3ComoLista(v.analises[i].top_3_emocoes),
                                 Bruto(textos[i]))
                  /\ v.analises[i].emocao_dominante_original
                        = v.analises[i].top_3_emocoes[1].emocao_original
                  /\ v.analises[i].confianca
                        = v.analises[i].top_3_emocoes[1].probabilidade

\* Two different texts with different analyses, the second text first.
C3_Witness ==
    /\ Respondeu("comparar_sentimentos")
    /\ ultima.req.textos = <<"b", "a">>
    /\ Len(ultima.res.valor.analises) = 2
    /\ ultima.res.valor.analises[1].top_3_emocoes
          # ultima.res.valor.analises[2].top_3_emocoes
    /\ ultima.res.valor.analises[2].top_3_emocoes[1].probabilidade[1]
          > ultima.res.valor.analises[2].top_3_emocoes[3].probabilidade[1]

(***************************************************************************)
(* Steps of the event loop.                                                *)
(***************************************************************************)
\* This step ran the handler of a pending call.
Executou == pendentes' # pendentes /\ pendentes' \subseteq pendentes

(***************************************************************************)
(* C5: whatever calls arrive and in whatever order the event loop runs     *)
(* them, at most one pipeline is ever constructed and stored in            *)
(* classificador; once set, classificador is never replaced or reset; and  *)
(* every call that runs inference runs it on that one instance.            *)
(***************************************************************************)
C5_UmaInstancia ==
    [][/\ construcoes' <= 1
       /\ classificador # None => classificador' = classificador
       /\ classificador' # None =>
             (classificador'[1].id = 1 /\ construcoes' = 1)
       /\ (Executou /\ ultima'.res.inferencias > 0) =>
             /\ classificador' # None
             /\ ultima'.instancia = classificador'[1].id]_vars

\* A call that found the model another call had loaded, with a third call
\* in flight.
C5_Witness ==
    /\ origem = "externo"
    /\ construcoes = 1
    /\ ultima.cargas = 0
    /\ ultima.res.inferencias > 0
    /\ ultima.instancia = 1
    /\ pendentes # {}

(***************************************************************************)
(* C6: a failure to load the model, or a failure of the model on a text,   *)
(* is the outcome of the call: the call ends with that exception, returns  *)
(* no JSON, and neither the load nor the inference is tried again.  When   *)
(* the model fails on the i-th text of a comparison, the call ends with    *)
(* the exception although the analyses of the texts 1..i-1 were computed.  *)
(***************************************************************************)
TextosDe(r) ==
    IF r.ferramenta = "comparar_sentimentos" THEN r.textos ELSE <<r.texto>>

C6_Propaga ==
    ultima.req.ferramenta # "" =>
        /\ ultima.cargas <= 1
        /\ ultima.instancia = 0 =>
              /\ ultima.cargas = 1
              /\ ultima.res.tipo = "excecao"
              /\ ultima.res.erro = "carga"
              /\ ultima.res.inferencias = 0
        /\ ultima.instancia # 0 =>
              LET ts == TextosDe(ultima.req)
                  falhas == {i \in 1..Len(ts) : ~classificador[1].pesos[ts[i]].ok}
              IN  falhas # {} =>
                     LET i == CHOOSE x \in falhas : \A y \in falhas : x <= y
                     IN  /\ ultima.res.tipo = "excecao"
                         /\ ultima.res.erro = "inferencia"
                         /\ ultima.res.inferencias = i
                         /\ ultima.res.parciais = i - 1

\* The model fails on the second text of a comparison, after the first
\* text was analysed.
C6_Witness ==
    /\ ultima.req.ferramenta = "comparar_sentimentos"
    /\ Len(ultima.req.textos) = 2
    /\ ultima.instancia = 1
    /\ classificador[1].pesos[ultima.req.textos[1]].ok
    /\ ~classificador[1].pesos[ultima.req.textos[2]].ok
    /\ ultima.res.tipo = "excecao"
    /\ ultima.res.parciais = 1

(***************************************************************************)
(* C7: no call leaves state behind except the cached model.  Every step    *)
(* leaves the translation table and the tool registry as the module        *)
(* defined them, and the outcome of a call that had the model is the       *)
(* outcome the same call has in a process that has run no call before,     *)
(* given the same model.                                                   *)
(***************************************************************************)
C7_SemEstado ==
    [][/\ traducao' = TRADUCAO_EMOCOES
       /\ servidor_mcp' = servidor_mcp
       /\ (Executou /\ ultima'.instancia # 0) =>
             ultima'.res = Ferramenta(ultima'.req, classificador'[1].pesos,
                                      TRADUCAO_EMOCOES, Nenhuma)]_vars

\* A comparison that returned analyses, run by a process in which an
\* earlier call had loaded the model.
C7_Witness ==
    /\ origem = "externo"
    /\ ultima.cargas = 0
    /\ Respondeu("comparar_sentimentos")
    /\ Len(ultima.res.valor.analises) = MaxTextos

(***************************************************************************)
(* C10: in a server started through its entry point the model is loaded    *)
(* before the server serves: it never serves with classificador = None, no *)
(* call it runs attempts a load, and when the pre-load fails the process   *)
(* ends without ever serving.                                              *)
(***************************************************************************)
C10_PreCarga ==
    [][origem' = "main" =>
          /\ fase' = "servindo" => classificador' # None
          /\ Executou =>
                /\ classificador # None
                /\ ultima'.cargas = 0
                /\ construcoes' = construcoes
          /\ (fase = "importado" /\ classificador' = None) => fase' = "abortado"
          /\ fase = "abortado" => fase' = "abortado"
          /\ fase' = "abortado" => (pendentes' = {} /\ ultima' = Nenhuma)]_vars

\* A call answered by a server that was started through the entry point.
C10_Witness ==
    /\ origem = "main"
    /\ fase = "servindo"
    /\ construcoes = 1
    /\ ultima.res.tipo = "json"
    /\ ultima.cargas = 0

(***************************************************************************)
(* The demo client, cliente.py.  A value of CHAVE_API_OPENAI is None       *)
(* (not set) or a one-element list holding the string.                     *)
(***************************************************************************)
Chaves == {None, <<"">>, <<"sk">>}

\* The examples in the order main() awaits them.
EXEMPLOS == <<"basica", "detalhada", "comparacao", "review", "openai">>

\* Where main() goes on after example e returned.
Depois(e) ==
    IF e = "basica" THEN <<"detalhada", "conectar">>
    ELSE IF e = "detalhada" THEN <<"comparacao", "conectar">>
    ELSE IF e = "comparacao" THEN <<"review", "conectar">>
    ELSE IF e = "review" THEN <<"openai", "inicio">>
    ELSE <<"main", "final">>

\* Variant of Falsy: "if api_key is None".
SoNone(chave) == chave = None

\* not api_key
Falsy(chave) == chave = None \/ chave = <<"">>

InitCliente ==
    /\ fase = "importado"
    /\ origem = "?"
    /\ classificador = None
    /\ traducao = TRADUCAO_EMOCOES
    /\ servidor_mcp = {"analisar_sentimento", "analisar_sentimento_detalhado",
                       "comparar_sentimentos"}
    /\ construcoes = 0
    /\ pendentes = {}
    /\ ultima = Nenhuma
    /\ pc = <<"main", "inicio">>
    /\ ambiente \in Chaves
    /\ dotenv \in Chaves
    /\ api_key = None
    /\ efeitos = SemEfeitos

\* main(): the banner, then the first example.
Cabecalho ==
    /\ pc = <<"main", "inicio">>
    /\ pc' = <<"basica", "conectar">>
    /\ UNCHANGED <<ambiente, dotenv, api_key, efeitos>>
    /\ UNCHANGED varsServidor

\* async with cliente_mcp: the connection to the server is opened.
Conectar(e) ==
    /\ pc = <<e, "conectar">>
    /\ pc' = <<e, "chamar">>
    /\ efeitos' = [efeitos EXCEPT !.conexoes = @ + 1]
    /\ UNCHANGED <<ambiente, dotenv, api_key>>
    /\ UNCHANGED varsServidor

\* async with cliente_mcp raises: the exception leaves main().
FalharConexao(e) ==
    /\ pc = <<e, "conectar">>
    /\ pc' = <<"main", "erro">>
    /\ UNCHANGED <<ambiente, dotenv, api_key, efeitos>>
    /\ UNCHANGED varsServidor

\* await cliente_mcp.call_tool(...) returns and the result is printed.
Chamar(e) ==
    /\ pc = <<e, "chamar">>
    /\ pc' = IF e = "openai" THEN <<"openai", "sintese">> ELSE Depois(e)
    /\ efeitos' = [efeitos EXCEPT !.chamadas = @ + 1]
    /\ UNCHANGED <<ambiente, dotenv, api_key>>
    /\ UNCHANGED varsServidor

\* await cliente_mcp.call_tool(...) raises: the exception leaves main().
FalharChamada(e) ==
    /\ pc = <<e, "chamar">>
    /\ pc' = <<"main", "erro">>
    /\ efeitos' = [efeitos EXCEPT !.chamadas = @ + 1]
    /\ UNCHANGED <<ambiente, dotenv, api_key>>
    /\ UNCHANGED varsServidor

\* dotenv.load_dotenv(): a variable of the .env file is set in os.environ
\* unless os.environ has it already; then api_key = os.environ.get(...).
CarregarChave ==
    /\ pc = <<"openai", "inicio">>
    /\ ambiente' = IF ambiente = None THEN dotenv ELSE ambiente
    /\ api_key' = ambiente'
    /\ pc' = <<"openai", "teste">>
    /\ UNCHANGED <<dotenv, efeitos>>
    /\ UNCHANGED varsServidor

\* if not api_key: print the warning and return.
PularOpenAI ==
    /\ pc = <<"openai", "teste">>
    /\ Falsy(api_key)
    /\ efeitos' = [efeitos EXCEPT !.avisos = @ + 1]
    /\ pc' = Depois("openai")
    /\ UNCHANGED <<ambiente, dotenv, api_key>>
    /\ UNCHANGED varsServidor

\* The key is there: the example goes on to the connection.
SeguirOpenAI ==
    /\ pc = <<"openai", "teste">>
    /\ ~Falsy(api_key)
    /\ pc' = <<"openai", "conectar">>
    /\ UNCHANGED <<ambiente, dotenv, api_key, efeitos>>
    /\ UNCHANGED varsServidor

\* OpenAI(api_key=api_key).responses.create(...) returns.
Sintetizar ==
    /\ pc = <<"openai", "sintese">>
    /\ efeitos' = [efeitos EXCEPT !.sinteses = @ + 1]
    /\ pc' = Depois("openai")
    /\ UNCHANGED <<ambiente, dotenv, api_key>>
    /\ UNCHANGED varsServidor

\* The synthesis call raises: the exception leaves main().
FalharSintese ==
    /\ pc = <<"openai", "sintese">>
    /\ efeitos' = [efeitos EXCEPT !.sinteses = @ + 1]
    /\ pc' = <<"main", "erro">>
    /\ UNCHANGED <<ambiente, dotenv, api_key>>
    /\ UNCHANGED varsServidor

\* The last print of main().
Final ==
    /\ pc = <<"main", "final">>
    /\ efeitos' = [efeitos EXCEPT !.sucesso = TRUE]
    /\ pc' = <<"main", "fim">>
    /\ UNCHANGED <<ambiente, dotenv, api_key>>
    /\ UNCHANGED varsServidor

NextCliente ==
    \/ Cabecalho
    \/ \E i \in 1..Len(EXEMPLOS) : Conectar(EXEMPLOS[i])
    \/ \E i \in 1..Len(EXEMPLOS) : FalharConexao(EXEMPLOS[i])
    \/ \E i \in 1..Len(EXEMPLOS) : Chamar(EXEMPLOS[i])
    \/ \E i \in 1..Len(EXEMPLOS) : FalharChamada(EXEMPLOS[i])
    \/ CarregarChave
    \/ PularOpenAI
    \/ SeguirOpenAI
    \/ Sintetizar
    \/ FalharSintese
    \/ Final

\* asyncio.run(main()) runs main() until it returns or raises.
SpecCliente == InitCliente /\ [][NextCliente]_vars /\ WF_vars(NextCliente)

(***************************************************************************)
(* C8: when CHAVE_API_OPENAI is missing or empty, the synthesis example    *)
(* prints its warning and returns: it opens no connection, calls no tool   *)
(* and does not call the synthesis API, and main() goes on to its final    *)
(* success message; so a run whose four earlier examples succeeded ends    *)
(* with that message.                                                      *)
(***************************************************************************)
SemChave == api_key = None \/ api_key = <<"">>

C8_PulaSintese ==
    /\ [][(pc = <<"openai", "teste">> /\ SemChave) =>
             /\ pc' = <<"main", "final">>
             /\ efeitos' = [efeitos EXCEPT !.avisos = efeitos.avisos + 1]]_vars
    /\ [](pc = <<"main", "fim">> => efeitos.sucesso)
    /\ (pc = <<"openai", "teste">> /\ SemChave) ~> (pc = <<"main", "fim">>)

\* The run ended with the success message, the environment variable set to
\* the empty string although the .env file holds a key.
C8_Witness ==
    /\ pc = <<"main", "fim">>
    /\ api_key = <<"">>
    /\ dotenv = <<"sk">>
    /\ efeitos = [conexoes |-> 4, chamadas |-> 4, sinteses |-> 0, avisos |-> 1,
                  sucesso |-> TRUE]

(***************************************************************************)
(* C11: a load that fails inside inicializar_modelo leaves classificador   *)
(* None and builds nothing, so every call that runs while classificador is *)
(* None attempts the load again; a call attempts the load at most once,    *)
(* and no call attempts it once classificador is set.                      *)
(***************************************************************************)
C11_NovaTentativa ==
    [][/\ (Executou /\ ultima'.instancia = 0) =>
             /\ classificador = None
             /\ classificador' = None
             /\ construcoes' = construcoes
             /\ ultima'.cargas = 1
       /\ (fase = "importado" /\ fase' = "abortado") =>
             (classificador' = None /\ construcoes' = construcoes)
       /\ (Executou /\ classificador = None) => ultima'.cargas = 1
       /\ (Executou /\ classificador # None) =>
             (ultima'.cargas = 0 /\ classificador' = classificador)
       /\ Executou => ultima'.cargas <= 1]_vars

\* A call whose load failed, with classificador still None and another
\* call in flight that will attempt the load again.
C11_Witness ==
    /\ fase = "servindo"
    /\ ultima.res.erro = "carga"
    /\ ultima.cargas = 1
    /\ classificador = None
    /\ construcoes = 0
    /\ pendentes # {}

=============================================================================
